---- MODULE Spec2Model ----
(***************************************************************************)
(* Model of the smart-grid load forecasting scripts:                       *)
(*   src/ml/train_forecast_model.py  (feature engineering, split, fit)     *)
(*   src/ml/serve_model.py           (startup cache, /health, /forecast,   *)
(*                                    /peak)                               *)
(*                                                                         *)
(* Numbers.  A float is a rational [n |-> numerator, d |-> denominator]    *)
(* in kW; NaN is 0/0.  Raw sensor values and predictions lie on a grid of  *)
(* 1/Resolution kW.  A JSON number produced by safe_float is an integer    *)
(* count of 1e-4 kW (round(x, 4)); JSON null is a separate value.          *)
(* Time.  A Timestamp is a number of minutes since the midnight that       *)
(* starts proleptic ordinal day 0; a date is an ordinal day number, and    *)
(* weekday() is (ordinal + 6) % 7 as in CPython's datetime.                *)
(***************************************************************************)
EXTENDS Integers, Sequences, FiniteSets, TLC

VARIABLES dataset, model, trainRun, pc, heap, metrics, predictCalls, clock,
          response, raised

vars == <<dataset, model, trainRun, pc, heap, metrics, predictCalls, clock,
          response, raised>>

-----------------------------------------------------------------------------
(* Bounds of the model *)

\* grid of raw values: 1/Resolution kW
Resolution == 2
\* small datasets: every raw row count 0..SmallRaw
SmallRaw == 19
\* a dataset whose test partition has more than 10 rows
MidRaw == 60
\* a dataset whose test partition has more than 96 rows
BigRaw == 490
\* last day the wall clock reaches
MaxDay == 8

-----------------------------------------------------------------------------
(* Floats *)

Fl(n, d) == [n |-> n, d |-> d]
NaN == Fl(0, 0)
IsNaN(x) == x.d = 0
Cell(v) == Fl(v, Resolution)

JsonNull == [null |-> TRUE, val |-> 0]
JsonNum(v) == [null |-> FALSE, val |-> v]

\* round(x, 4) for x = n/d >= 0, as a count of 1e-4: nearest, ties to even
Round4(x) ==
  LET num == x.n * 10000
      q == num \div x.d
      r == num % x.d
  IN  IF 2 * r < x.d THEN q
      ELSE IF 2 * r > x.d THEN q + 1
      ELSE IF q % 2 = 0 THEN q ELSE q + 1

\* safe_float: None or NaN -> None, else round(float(val), 4)
safe_float(val) == IF IsNaN(val) THEN JsonNull ELSE JsonNum(Round4(val))

\* a sequence given by a rule, as the tuple of its elements
Eager(s) == SubSeq(s, 1, Len(s))

RECURSIVE SumTo(_, _)
SumTo(s, n) == IF n = 0 THEN 0 ELSE s[n] + SumTo(s, n - 1)
SumSeq(s) == SumTo(Eager(s), Len(s))

\* numerators of a column on the raw grid
Units(rows, col) == Eager([i \in 1..Len(rows) |-> rows[i][col].n])

MaxOf(S) == CHOOSE m \in S : \A x \in S : x <= m
MinOf(S) == CHOOSE m \in S : \A x \in S : m <= x
Range(s) == {s[i] : i \in 1..Len(s)}

-----------------------------------------------------------------------------
(* The dataset file (smart_grid_dataset.csv) *)

\* power reading of the j-th reading in time order, on the raw grid
ActualUnits(ds, j) ==
  CASE ds.actPat = "ramp" -> (j % 9) + 1
    [] ds.actPat = "flat" -> 3
    [] OTHER -> ((j * 5) % 7) + 1

\* the row at file position k (1-based); the file may list readings in
\* ascending or descending time order
CsvRow(ds, k) ==
  LET j == IF ds.descending THEN ds.n - k + 1 ELSE k
  IN  [ Timestamp |-> ds.start + (j - 1) * ds.step,
        power |-> IF ds.nanCol = "power" /\ ds.nanAt = j
                  THEN NaN ELSE Cell(ActualUnits(ds, j)),
        voltage |-> IF ds.nanCol = "voltage" /\ ds.nanAt = j
                    THEN NaN ELSE Cell(230 * Resolution + (j % 3)) ]

\* pd.read_csv(DATASET_PATH)
read_csv(ds) == Eager([k \in 1..ds.n |-> CsvRow(ds, k)])

-----------------------------------------------------------------------------
(* Feature engineering (identical in both scripts) *)

\* df.sort_values("Timestamp").reset_index(drop=True); timestamps are distinct
\* (heavy intermediate values are passed as operator arguments, which are
\* evaluated once)
rank_of(rows) ==
  Eager([i \in 1..Len(rows) |->
           1 + Cardinality({k \in 1..Len(rows) :
                              rows[k].Timestamp < rows[i].Timestamp})])
take_by_rank(rows, rank) ==
  Eager([p \in 1..Len(rows) |->
           rows[CHOOSE i \in 1..Len(rows) : rank[i] = p] @@ ("idx" :> (p - 1))])
sort_values(rows) == take_by_rank(rows, rank_of(rows))

\* Timestamp.dt.hour, .dt.dayofweek, isin([5, 6]).astype(int)
dt_hour(ts) == (ts % 1440) \div 60
dt_date(ts) == ts \div 1440
weekday(ordinal) == (ordinal + 6) % 7
dt_dayofweek(ts) == weekday(dt_date(ts))
is_weekend(dow) == IF dow \in {5, 6} THEN 1 ELSE 0

\* (a shift that reaches one row too far back)
shift_one_more(rows, i, k) == IF i - k > 1 THEN rows[i - k - 1].power ELSE NaN

\* Series.shift(k) at position i (1-based)
shift(rows, i, k) == IF i - k >= 1 THEN rows[i - k].power ELSE NaN

\* the trailing window of w readings ending at position i, or <<>> when the
\* window holds fewer than w observations (min_periods = w; NaN is no observation)
rolling(rows, i, w) ==
  IF i < w \/ \E k \in (i - w + 1)..i : IsNaN(rows[k].power)
  THEN <<>>
  ELSE [k \in 1..w |-> rows[i - w + k].power.n]

roll_mean(win) ==
  IF win = <<>> THEN NaN ELSE Fl(SumSeq(win), Len(win) * Resolution)

\* rolling std with the n-1 denominator, held as its square (the variance)
roll_std(win) ==
  IF win = <<>> THEN NaN
  ELSE LET n == Len(win)
           sq == SumSeq([k \in 1..n |-> win[k] * win[k]])
           s == SumSeq(win)
       IN  Fl(n * sq - s * s, n * (n - 1) * Resolution * Resolution)

roll_max(win) == IF win = <<>> THEN NaN ELSE Cell(MaxOf(Range(win)))

\* the added columns of one row
add_features(rows, i) ==
  LET win == rolling(rows, i, 4)
      dow == dt_dayofweek(rows[i].Timestamp)
  IN  rows[i] @@
      [ hour |-> dt_hour(rows[i].Timestamp),
        dayofweek |-> dow,
        is_weekend |-> is_weekend(dow),
        power_lag_1 |-> shift(rows, i, 1),
        power_lag_2 |-> shift(rows, i, 2),
        power_lag_4 |-> shift(rows, i, 4),
        power_roll_mean_1h |-> roll_mean(win),
        power_roll_std_1h |-> roll_std(win),
        power_roll_max_1h |-> roll_max(win) ]

FloatCols == {"power", "voltage", "power_lag_1", "power_lag_2", "power_lag_4",
              "power_roll_mean_1h", "power_roll_std_1h", "power_roll_max_1h"}

\* df.dropna(): drop every row holding a NaN in any column
row_has_nan(r) == \E c \in FloatCols : IsNaN(r[c])
dropna(rows) == SelectSeq(rows, LAMBDA r : ~row_has_nan(r))

\* lines 45-61 of serve_model.py, 35-63 of train_forecast_model.py
add_all_features(sorted) ==
  Eager([i \in 1..Len(sorted) |-> add_features(sorted, i)])
engineer(ds) == dropna(add_all_features(sort_values(read_csv(ds))))

-----------------------------------------------------------------------------
(* IEEE double products n * 0.8 and n * 0.2 *)

RECURSIVE Pow2Floor(_)
Pow2Floor(m) == IF m < 2 THEN 1 ELSE 2 * Pow2Floor(m \div 2)

\* The double nearest to k/5 (k = 4: 0.8, k = 1: 0.2) is (k/5)(1 + 2^-54).
\* n * that double is, before rounding, x + x * 2^-54 with x = k*n/5.  When x
\* is an integer m the product rounds to m exactly iff the excess m * 2^-54
\* is below half an ulp of m, 2 * Pow2Floor(m) * 2^-54; otherwise, and when
\* x is no integer, the double lies strictly between floor(x) and floor(x)+1.
float_mul_fifths(k, n) ==
  LET m == (k * n) \div 5
      exact == (k * n) % 5 = 0
      rounds_to_m == m < 2 * Pow2Floor(m)
  IN  [int |-> m, above |-> ~(exact /\ rounds_to_m)]

py_int(f) == f.int
ceil(f) == IF f.above THEN f.int + 1 ELSE f.int

-----------------------------------------------------------------------------
(* train_forecast_model.py *)

\* (a test size rounded down instead of up)
sk_n_test_floor(n) == py_int(float_mul_fifths(1, n))

\* sklearn train_test_split(X, y, test_size=0.2, shuffle=False):
\* n_test = ceil(test_size * n_samples), n_train = n_samples - n_test
sk_n_test(n) == ceil(float_mul_fifths(1, n))
sk_n_train(n) == n - sk_n_test(n)

train_test_split(rows) ==
  LET n == Len(rows)
  IN  [ train |-> SubSeq(rows, 1, sk_n_train(n)),
        test |-> SubSeq(rows, sk_n_train(n) + 1, sk_n_train(n) + sk_n_test(n)) ]

IdxOf(rows) == Eager([i \in 1..Len(rows) |-> rows[i].idx])

\* a fitted regressor: an opaque function of the feature vector, drawn from a
\* family of functions onto the levels below
ModelMuls == {0, 1}
ModelOffs == {0, 2}
Models == [mul : ModelMuls, off : ModelOffs, fitted : {TRUE}]
NoModel == [mul |-> 0, off |-> 0, fitted |-> FALSE]

PredLevels == << 0, 1, 2 * Resolution, 2 * Resolution + 1, 4 * Resolution,
                 12 * Resolution, 12 * Resolution + 1 >>

\* model.predict on one feature vector, on the raw grid
predict(m, r) ==
  PredLevels[((m.mul * (r.power_lag_1.n + r.hour) + m.off) % Len(PredLevels)) + 1]

NoTrainRun == [state |-> "idle", X_train |-> <<>>, X_test |-> <<>>]

\* lines 88-173 of the training script on the engineered frame df
TrainOn(df) ==
  IF Len(df) = 0 \/ sk_n_train(Len(df)) = 0
  THEN \* train_test_split raises ValueError: no model file is written
       /\ trainRun' = [NoTrainRun EXCEPT !.state = "crashed"]
       /\ model' = model
  ELSE /\ trainRun' = [ state |-> "done",
                        X_train |-> IdxOf(train_test_split(df).train),
                        X_test |-> IdxOf(train_test_split(df).test) ]
       /\ \E m \in Models : model' = m

\* the whole training script: engineer, split, fit, joblib.dump
Train ==
  /\ trainRun.state = "idle"
  /\ TrainOn(engineer(dataset))
  /\ UNCHANGED <<dataset, pc, heap, metrics, predictCalls, clock, response,
                 raised>>

-----------------------------------------------------------------------------
(* serve_model.py: startup *)

Abs(x) == IF x < 0 THEN -x ELSE x

\* sklearn.metrics on the test partition (y_true, y_pred on the raw grid)
mean_absolute_error(y, p) ==
  Fl(SumSeq([i \in 1..Len(y) |-> Abs(y[i] - p[i])]), Len(y) * Resolution)

mean_squared_error(y, p) ==
  Fl(SumSeq([i \in 1..Len(y) |-> (y[i] - p[i]) * (y[i] - p[i])]),
     Len(y) * Resolution * Resolution)

\* r2_score: 1 - SS_res / SS_tot; NaN for fewer than two samples; for a
\* constant y_true 1.0 when the fit is perfect and 0.0 otherwise
r2_score(y, p) ==
  LET n == Len(y)
      res == SumSeq([i \in 1..n |-> (y[i] - p[i]) * (y[i] - p[i])])
      tot == n * SumSeq([i \in 1..n |-> y[i] * y[i]]) - SumSeq(y) * SumSeq(y)
  IN  IF n < 2 THEN NaN
      ELSE IF tot = 0 THEN (IF res = 0 THEN Fl(1, 1) ELSE Fl(0, 1))
      ELSE Fl(tot - n * res, tot)

\* max(0.0, r): the first argument is kept unless the second compares greater,
\* which NaN never does
max_zero(r) == IF IsNaN(r) \/ r.n <= 0 THEN Fl(0, 1) ELSE r

\* split_idx = int(len(df_raw) * 0.8)
split_idx(n) == py_int(float_mul_fifths(4, n))

NoMetrics == [MAE_VAL |-> NaN, RMSE_VAL |-> NaN, R2_VAL |-> NaN]

EmptyHeap == [ df_raw |-> <<>>, df_train |-> [lo |-> 0, hi |-> 0],
               df_test |-> <<>>, recent_96 |-> <<>>, df_work |-> <<>> ]

NoResponse == [kind |-> "none"]

\* the exception that the body of the last request handler raised, if any;
\* the classes are subclasses of Exception, and str(e) is modelled by the
\* class name
NoException == "none"
Exceptions == {"MemoryError", "KeyError"}
Outcomes == Exceptions \cup {NoException}

\* (the error body returned without the status code)
error_response_ok(e) == [kind |-> "error", status |-> 200, error |-> e]

\* except Exception as e: return jsonify({"error": str(e)}), 500
error_response(e) == [kind |-> "error", status |-> 500, error |-> e]

\* df_train = df_raw.iloc[:split_idx] is a view of df_raw
ViewRows(h, v) == SubSeq(h.df_raw, v.lo + 1, v.hi)
ViewLen(v) == v.hi - v.lo

\* lines 79-86: predict once, attach predicted_kw, score
Evaluate(df, cut, test, y_test, y_pred_all) ==
  /\ pc' = "serving"
  /\ predictCalls' = predictCalls + 1
  /\ heap' = [heap EXCEPT
       !.df_raw = df,
       !.df_train = [lo |-> 0, hi |-> cut],
       !.df_test = Eager([i \in 1..Len(test) |->
          test[i] @@ ("predicted_kw" :> Cell(y_pred_all[i]))])]
  /\ metrics' = [ MAE_VAL |-> mean_absolute_error(y_test, y_pred_all),
                  RMSE_VAL |-> mean_squared_error(y_test, y_pred_all),
                  R2_VAL |-> max_zero(r2_score(y_test, y_pred_all)) ]

predict_all(m, test) == Eager([i \in 1..Len(test) |-> predict(m, test[i])])

\* lines 71-86 on the test partition
StartupTest(df, cut, test) ==
  IF test = <<>>
  THEN \* predicting and scoring an empty test set raises
       /\ pc' = "crashed"
       /\ heap' = [heap EXCEPT !.df_raw = df,
                               !.df_train = [lo |-> 0, hi |-> cut]]
       /\ UNCHANGED <<metrics, predictCalls>>
  ELSE Evaluate(df, cut, test, Units(test, "power"), predict_all(model, test))

\* lines 71-74: df_train = df_raw.iloc[:split_idx], df_test = the rest, copied
StartupSplit(df, cut) == StartupTest(df, cut, SubSeq(df, cut + 1, Len(df)))

\* module level of serve_model.py, lines 35-97 (RMSE_VAL is held as its
\* square, the mean squared error)
Startup ==
  /\ pc = "boot"
  /\ IF ~model.fitted
     THEN \* the model file is missing: sys.exit(1)
          /\ pc' = "exited"
          /\ UNCHANGED <<heap, metrics, predictCalls>>
     ELSE StartupSplit(engineer(dataset), split_idx(Len(engineer(dataset))))
  /\ UNCHANGED <<dataset, model, trainRun, clock, response, raised>>

-----------------------------------------------------------------------------
(* serve_model.py: pandas helpers of the request handlers *)

\* df[col] = value: assign (or overwrite) one column of one row
set_col(r, col, v) == (col :> v) @@ r

\* (a tail that keeps every row)
tail_all(rows, k) == rows

\* df.tail(k)
tail(rows, k) ==
  SubSeq(rows, IF Len(rows) > k THEN Len(rows) - k + 1 ELSE 1, Len(rows))

\* Series.mean / max / min / median of grid values; NaN for an empty group
mean(vals) ==
  IF vals = <<>> THEN NaN ELSE Fl(SumSeq(vals), Len(vals) * Resolution)
max(vals) == IF vals = <<>> THEN NaN ELSE Cell(MaxOf(Range(vals)))
min(vals) == IF vals = <<>> THEN NaN ELSE Cell(MinOf(Range(vals)))

\* the k-th smallest element of vals
kth_smallest(vals, k) ==
  CHOOSE v \in Range(vals) :
    /\ Cardinality({i \in 1..Len(vals) : vals[i] < v}) < k
    /\ Cardinality({i \in 1..Len(vals) : vals[i] <= v}) >= k

median(vals) ==
  IF vals = <<>> THEN NaN
  ELSE IF Len(vals) % 2 = 1 THEN Cell(kth_smallest(vals, (Len(vals) + 1) \div 2))
  ELSE Fl(kth_smallest(vals, Len(vals) \div 2)
          + kth_smallest(vals, Len(vals) \div 2 + 1), 2 * Resolution)

\* df[df[col] == v]
where_eq(rows, col, v) == SelectSeq(rows, LAMBDA r : r[col] = v)

-----------------------------------------------------------------------------
(* GET /health *)

Health ==
  /\ pc = "serving"
  /\ response' = [ kind |-> "health", status |-> "ok",
                   testRows |-> Len(heap.df_test) ]
  /\ raised' = NoException
  /\ UNCHANGED <<dataset, model, trainRun, pc, heap, metrics, predictCalls,
                 clock>>

-----------------------------------------------------------------------------
(* GET /forecast *)

\* the dates datetime.now() shows at the handler's 8 reads (line 149, then
\* line 178 seven times) when midnight passes just before read number cross
\* (cross = 9: it does not pass)
now_reads(c, cross) == [k \in 1..8 |-> IF k >= cross THEN c + 1 ELSE c]

\* lines 131-146: groupby("hour_slot").agg(mean, mean).reindex(range(24)),
\* then one entry per hour
forecast24h_of(recent) ==
  [ i \in 1..24 |->
      [ hour |-> i - 1,
        actual |-> safe_float(
          mean(Units(where_eq(recent, "hour_slot", i - 1), "power"))),
        predicted |-> safe_float(
          mean(Units(where_eq(recent, "hour_slot", i - 1), "predicted_kw"))) ] ]

\* lines 152-154: the rows of tomorrow's day of week, or all rows
dow_rows_of(test, tomorrow_dow) ==
  IF where_eq(test, "dayofweek", tomorrow_dow) = <<>>
  THEN test
  ELSE where_eq(test, "dayofweek", tomorrow_dow)

\* (a missing hour passed to safe_float like any other value)
tomorrow_value_null(pred) == safe_float(pred)

\* line 169: a missing hour reports the number 0
tomorrow_value(pred) == IF IsNaN(pred) THEN JsonNum(0) ELSE safe_float(pred)

\* lines 156-171
forecastTomorrow_of(dow_rows) ==
  [ i \in 1..24 |->
      [ hour |-> i - 1,
        predicted |-> tomorrow_value(
          median(Units(where_eq(dow_rows, "hour", i - 1), "predicted_kw"))),
        confidence |-> 88 + ((i - 1) % 4) ] ]

DayLabels == <<"Mon", "Tue", "Wed", "Thu", "Fri", "Sat", "Sun">>

\* lines 178-197: one entry of the weekly list for the date day
weekly_entry(test, day, day_rows) ==
  [ date |-> day,
    dayLabel |-> DayLabels[weekday(day) + 1],
    peakPredicted |-> IF day_rows = <<>> THEN safe_float(Fl(0, 1))
                      ELSE safe_float(max(Units(day_rows, "predicted_kw"))),
    avgPredicted |-> IF day_rows = <<>> THEN safe_float(Fl(0, 1))
                     ELSE safe_float(mean(Units(day_rows, "predicted_kw"))),
    isWeekend |-> weekday(day) >= 5 ]

\* lines 176-197: day = datetime.now() + timedelta(days=i), i = 1..7
weeklyForecast_of(test, reads) ==
  [ i \in 1..7 |->
      weekly_entry(test, reads[i + 1] + i,
                   where_eq(test, "dayofweek", weekday(reads[i + 1] + i))) ]

\* lines 127-130: recent_96 = df_test.tail(96).copy() with hour_slot added
recent_96_of(test) ==
  Eager([i \in 1..Len(tail(test, 96)) |->
           set_col(tail(test, 96)[i], "hour_slot", tail(test, 96)[i].hour)])

\* the response body, lines 199-215 (rmse, featureImportance and the fixed
\* algorithm fields are left out)
forecast_body(test, recent, reads) ==
  [ kind |-> "forecast",
    now |-> reads,
    forecast24h |-> forecast24h_of(recent),
    forecastTomorrow |->
      forecastTomorrow_of(dow_rows_of(test, (weekday(reads[1]) + 1) % 7)),
    weeklyForecast |-> weeklyForecast_of(test, reads),
    modelStats |-> [ mae |-> Round4(metrics.MAE_VAL),
                     r2 |-> Round4(metrics.R2_VAL),
                     trainSize |-> ViewLen(heap.df_train),
                     testSize |-> Len(test) ] ]

\* the dates the clock can show at the last read made before an exception is
\* raised: c when none was made (the exception is raised in lines 127-146),
\* else the value of read number at
last_read_before_raise(c) ==
  {c} \cup { now_reads(c, cross)[at] :
               at \in 1..8, cross \in {x \in 2..9 : x < 9 => c < MaxDay} }

\* lines 125-219.  The body returns its result, or raises e at some step; the
\* except clause turns an exception into the error response.
Forecast ==
  /\ pc = "serving"
  /\ \/ \E cross \in 2..9 :
          /\ cross < 9 => clock < MaxDay
          /\ clock' = now_reads(clock, cross)[8]
          /\ response' = forecast_body(heap.df_test,
                                       recent_96_of(heap.df_test),
                                       now_reads(clock, cross))
          /\ raised' = NoException
     \/ \E e \in Exceptions, c \in last_read_before_raise(clock) :
          /\ clock' = c
          /\ response' = error_response(e)
          /\ raised' = e
  \* recent_96 is a new object, released when the handler returns
  /\ heap' = [[heap EXCEPT !.recent_96 = recent_96_of(heap.df_test)]
                EXCEPT !.recent_96 = <<>>]
  /\ UNCHANGED <<dataset, model, trainRun, pc, metrics, predictCalls>>

-----------------------------------------------------------------------------
(* GET /peak *)

\* the elements of a set of integers in ascending order
sorted_seq(S) ==
  [p \in 1..Cardinality(S) |->
     CHOOSE d \in S : Cardinality({e \in S : e < d}) = p - 1]

\* lines 238-248: groupby("date").agg(...).reset_index().sort_values("date")
daily_row(work, d) ==
  [ date |-> d,
    peakKW |-> max(Units(where_eq(work, "date", d), "power")),
    peakPredKW |-> max(Units(where_eq(work, "date", d), "predicted_kw")),
    avgKW |-> mean(Units(where_eq(work, "date", d), "power")),
    avgPredKW |-> mean(Units(where_eq(work, "date", d), "predicted_kw")) ]

daily_of(work, dates) == [p \in 1..Len(dates) |-> daily_row(work, dates[p])]

\* lines 251-262: the last 30 days, each value through safe_float
daily_peak_list_of(daily_30) ==
  [ p \in 1..Len(daily_30) |->
      [ date |-> daily_30[p].date,
        peakKW |-> safe_float(daily_30[p].peakKW),
        peakPredKW |-> safe_float(daily_30[p].peakPredKW),
        avgKW |-> safe_float(daily_30[p].avgKW),
        avgPredKW |-> safe_float(daily_30[p].avgPredKW) ] ]

\* lines 265-272
stats_of(work) ==
  [ maxPredKW |-> safe_float(max(Units(work, "predicted_kw"))),
    avgPredKW |-> safe_float(mean(Units(work, "predicted_kw"))),
    minPredKW |-> safe_float(min(Units(work, "predicted_kw"))),
    maxActKW |-> safe_float(max(Units(work, "power"))),
    avgActKW |-> safe_float(mean(Units(work, "power"))) ]

\* line 275: bins = [0, 2, 4, 6, 8, 10, 12, inf]; the last edge is infinite
bins == <<0, 2, 4, 6, 8, 10, 12>>
labels == <<"0-2 kW", "2-4 kW", "4-6 kW", "6-8 kW", "8-10 kW", "10-12 kW",
            "12+ kW">>

\* pd.cut(x, bins=bins, labels=labels) with the default right=True: the
\* number of the interval (bins[i], bins[i+1]] holding v, 0 (NaN) for none
cut(v) ==
  LET above(i) == v.n > bins[i] * v.d
      upto(i) == i = Len(bins) \/ v.n <= bins[i + 1] * v.d
      hit == {i \in 1..Len(bins) : above(i) /\ upto(i)}
  IN  IF hit = {} THEN 0 ELSE CHOOSE i \in hit : TRUE

\* lines 277-282: value_counts() skips NaN, reindex(labels, fill_value=0)
histogram_of(pred_series) ==
  [ i \in 1..Len(labels) |->
      [ range |-> labels[i],
        count |-> Cardinality({k \in 1..Len(pred_series) :
                                 pred_series[k] = i}) ] ]

\* (keep="last": among equal values later rows first)
nlargest_rank_last(vals) ==
  Eager([i \in 1..Len(vals) |->
     1 + Cardinality({k \in 1..Len(vals) :
                        vals[k] > vals[i] \/ (vals[k] = vals[i] /\ k > i)})])

\* DataFrame.nlargest(n, col) with the default keep="first": the rank of each
\* row, larger values first and, among equal values, earlier rows first
nlargest_rank(vals) ==
  Eager([i \in 1..Len(vals) |->
     1 + Cardinality({k \in 1..Len(vals) :
                        vals[k] > vals[i] \/ (vals[k] = vals[i] /\ k < i)})])

take_ranked(rows, rank, n) ==
  [ p \in 1..(IF Len(rows) < n THEN Len(rows) ELSE n) |->
      rows[CHOOSE i \in 1..Len(rows) : rank[i] = p] ]

nlargest(rows, n, col) == take_ranked(rows, nlargest_rank(Units(rows, col)), n)

\* lines 285-298
top10_of(top10_df) ==
  [ p \in 1..Len(top10_df) |->
      [ time |-> top10_df[p].Timestamp,
        actualKW |-> safe_float(top10_df[p].power),
        predictedKW |-> safe_float(top10_df[p].predicted_kw),
        voltage |-> safe_float(top10_df[p].voltage) ] ]

\* the response body, lines 300-305
peak_body(work) ==
  [ kind |-> "peak",
    dailyPeak |-> daily_peak_list_of(
      tail(daily_of(work, sorted_seq({work[i].date : i \in 1..Len(work)})), 30)),
    stats |-> stats_of(work),
    histogram |-> histogram_of(
      Eager([k \in 1..Len(work) |-> cut(work[k].predicted_kw)])),
    top10 |-> top10_of(nlargest(work, 10, "predicted_kw")) ]

\* (no copy: the result names the source object itself)
copy_alias(src, fresh) == src

\* DataFrame.copy(): the object the result names; a copy is a new object
copy(src, fresh) == fresh

\* line 235: df_work["date"] = df_work["Timestamp"].dt.date, in place on the
\* object that df_work names
with_date(h, ref) ==
  [h EXCEPT ![ref] = Eager([i \in 1..Len(h[ref]) |->
                       set_col(h[ref][i], "date", dt_date(h[ref][i].Timestamp))])]

\* the handler on the heap h in which df_work names the object ref; df_work
\* is released when the handler returns
PeakOn(h, ref, e) ==
  /\ response' = IF e = NoException THEN peak_body(h[ref])
                 ELSE error_response(e)
  /\ raised' = e
  /\ heap' = [h EXCEPT !.df_work = <<>>]

\* line 234: df_work = df_test.copy()
bind_copy(h, ref) == [h EXCEPT ![ref] = h.df_test]

\* the heap when the body has completed `done` of lines 234 and 235
peak_heap(h, ref, done) ==
  IF done = 0 THEN h
  ELSE IF done = 1 THEN bind_copy(h, ref)
  ELSE with_date(bind_copy(h, ref), ref)

\* lines 233-309.  The body raises e in line 234 (done = 0), in line 235
\* (done = 1) or later (done = 2), or returns; the except clause turns an
\* exception into the error response.
Peak ==
  /\ pc = "serving"
  /\ \E e \in Outcomes, done \in 0..2 :
       /\ e = NoException => done = 2
       /\ PeakOn(peak_heap(heap, copy("df_test", "df_work"), done),
                 copy("df_test", "df_work"), e)
  /\ UNCHANGED <<dataset, model, trainRun, pc, metrics, predictCalls, clock>>

-----------------------------------------------------------------------------
(* The datasets and the initial state *)

Steps == {15, 120, 450}
FirstStamp == 1440 * 3 + 60 * 22
SmallDatasets ==
  { [ n |-> n, start |-> FirstStamp, step |-> 15, descending |-> d,
      nanCol |-> "none", nanAt |-> 0, actPat |-> "mix" ] :
      n \in 0..SmallRaw, d \in BOOLEAN }
  \cup
  { [ n |-> n, start |-> FirstStamp, step |-> 15, descending |-> FALSE,
      nanCol |-> c, nanAt |-> a, actPat |-> "ramp" ] :
      n \in {5, 9, 12, SmallRaw}, c \in {"power", "voltage"}, a \in {1, 5, 7} }
LargeDatasets ==
  { [ n |-> n, start |-> FirstStamp, step |-> st, descending |-> FALSE,
      nanCol |-> "none", nanAt |-> 0, actPat |-> ap ] :
      n \in {MidRaw, BigRaw}, st \in Steps, ap \in {"ramp", "flat"} }
  \ { [ n |-> BigRaw, start |-> FirstStamp, step |-> st, descending |-> FALSE,
        nanCol |-> "none", nanAt |-> 0, actPat |-> "flat" ] : st \in Steps }
Datasets == SmallDatasets \cup LargeDatasets

Init ==
  /\ dataset \in Datasets
  /\ model = NoModel
  /\ trainRun = NoTrainRun
  /\ pc = "boot"
  /\ heap = EmptyHeap
  /\ metrics = NoMetrics
  /\ predictCalls = 0
  /\ clock \in 1..7
  /\ response = NoResponse
  /\ raised = NoException

Next ==
  \/ Train
  \/ Startup
  \/ Health
  \/ Forecast
  \/ Peak

Spec == Init /\ [][Next]_vars

-----------------------------------------------------------------------------
(* Properties *)

FromTo(a, b) == [i \in 1..(b - a + 1) |-> a + i - 1]

\* C1: the prediction table and the metrics are computed exactly once, at
\* startup (one batch prediction, none before the service serves), and no
\* /health, /forecast or /peak request changes any row, column or value of
\* the table or of the metrics.
C1_CacheFrozen ==
  /\ [](predictCalls = IF pc = "serving" THEN 1 ELSE 0)
  /\ [][pc = "serving" =>
          /\ heap.df_test' = heap.df_test
          /\ metrics' = metrics
          /\ predictCalls' = predictCalls]_vars

C1_Witness ==
  /\ pc = "serving"
  /\ response.kind = "peak"
  /\ Len(heap.df_test) > 10
  /\ predictCalls = 1

\* C2: for every engineered row count n >= 10 the serving script's partition
\* (cut = int(n * 0.8)) is the training script's train_test_split partition,
\* row for row, with len(train) = floor(0.8 n) and len(train) + len(test) = n.
C2_SplitsAgree ==
  (pc = "serving" /\ trainRun.state = "done" /\ Len(heap.df_raw) >= 10) =>
    /\ IdxOf(ViewRows(heap, heap.df_train)) = trainRun.X_train
    /\ IdxOf(heap.df_test) = trainRun.X_test
    /\ 5 * ViewLen(heap.df_train) <= 4 * Len(heap.df_raw)
    /\ 5 * (ViewLen(heap.df_train) + 1) > 4 * Len(heap.df_raw)
    /\ ViewLen(heap.df_train) + Len(heap.df_test) = Len(heap.df_raw)
    /\ Len(trainRun.X_train) + Len(trainRun.X_test) = Len(heap.df_raw)

C2_Witness ==
  /\ pc = "serving"
  /\ trainRun.state = "done"
  /\ Len(heap.df_raw) >= 10
  /\ Len(heap.df_raw) % 5 = 0
  /\ Len(trainRun.X_test) * 5 = Len(heap.df_raw)

\* the engineered frame is the sorted raw series without its first 4 rows
FirstFourDropped ==
  /\ pc \in {"serving", "crashed"} =>
       /\ Len(heap.df_raw) = dataset.n - 4
       /\ IdxOf(heap.df_raw) = FromTo(4, dataset.n - 1)
       /\ \A i \in 1..(Len(heap.df_raw) - 1) :
            heap.df_raw[i].Timestamp < heap.df_raw[i + 1].Timestamp
  /\ trainRun.state = "done" =>
       trainRun.X_train \o trainRun.X_test = FromTo(4, dataset.n - 1)

\* C3 (as stated): for any raw sequence of at least 5 rows feature engineering
\* yields exactly len(raw) - 4 rows, the first 4 rows of the timestamp-sorted
\* series being removed and every later row kept in order.
C3_AnyRawSequence == dataset.n >= 5 => FirstFourDropped

\* C3 (amended): the same for any raw sequence of at least 5 rows in which no
\* cell is missing.
C3_NoMissingCell ==
  (dataset.n >= 5 /\ dataset.nanCol = "none") => FirstFourDropped

C3_Witness ==
  /\ pc = "serving"
  /\ trainRun.state = "done"
  /\ dataset.n >= 5
  /\ dataset.nanCol = "none"
  /\ dataset.descending
  /\ Len(heap.df_raw) = dataset.n - 4

\* the cached table and its predicted values on the raw grid
Cache == heap.df_test
Pred(i) == Cache[i].predicted_kw.n

\* v is num/den rounded to 4 decimals (a count of 1e-4), den > 0
IsRounded(v, num, den) ==
  /\ v.null = FALSE
  /\ 2 * (v.val * den - num * 10000) <= den
  /\ 2 * (num * 10000 - v.val * den) <= den

\* the sums of the predicted and of the actual values of the records in I
SumPred(I) == SumSeq([k \in 1..Len(Cache) |-> IF k \in I THEN Pred(k) ELSE 0])
SumPower(I) ==
  SumSeq([k \in 1..Len(Cache) |-> IF k \in I THEN Cache[k].power.n ELSE 0])

\* C4: in every /peak response the seven histogram bucket counts sum exactly
\* to the number of cached test records.
C4_HistogramSumsToRecords ==
  response.kind = "peak" =>
    /\ Len(response.histogram) = 7
    /\ SumSeq([i \in 1..7 |-> response.histogram[i].count]) = Len(Cache)

\* C5: histogram buckets are closed-open: a record with lo <= v < hi is
\* counted in [lo, hi) for the bounds 0,2,4,6,8,10,12,infinity, so that a
\* value equal to a boundary (2.0) is counted in the bucket starting at it.
C5_ClosedOpenBuckets ==
  response.kind = "peak" =>
    \A i \in 1..7 :
      response.histogram[i].count =
        Cardinality({k \in 1..Len(Cache) :
           /\ Pred(k) >= 2 * (i - 1) * Resolution
           /\ (i = 7 \/ Pred(k) < 2 * i * Resolution)})

\* C6: an engineered sequence of fewer than 10 rows is rejected before any
\* prediction or metric is computed: the service does not start.
C6_SmallSequenceRejected ==
  (pc = "serving" \/ predictCalls > 0 \/ metrics # NoMetrics) =>
    Len(heap.df_raw) >= 10

\* the last 96 cached records (all when fewer) with hour h
WindowHour(h) ==
  {k \in 1..Len(Cache) : k > Len(Cache) - 96 /\ Cache[k].hour = h}

\* C7: forecast24h has exactly 24 entries for hours 0..23 in order, computed
\* from the last 96 cached records (all if fewer): for an hour with no record
\* in the window actual and predicted are both null, otherwise both are the
\* (rounded) means over the window's records of that hour.
C7_HourlyProfile ==
  response.kind = "forecast" =>
    /\ Len(response.forecast24h) = 24
    /\ \A h \in 0..23 :
         LET e == response.forecast24h[h + 1]
             W == WindowHour(h)
         IN  /\ e.hour = h
             /\ W = {} => e.actual = JsonNull /\ e.predicted = JsonNull
             /\ W # {} =>
                  /\ IsRounded(e.actual, SumPower(W),
                               Cardinality(W) * Resolution)
                  /\ IsRounded(e.predicted, SumPred(W),
                               Cardinality(W) * Resolution)

C7_Witness ==
  /\ response.kind = "forecast"
  /\ Len(Cache) > 96
  /\ \E h \in 0..23 : WindowHour(h) = {}
  /\ \E h \in 0..23 : WindowHour(h) # {} /\ response.forecast24h[h + 1].predicted.val > 0

\* the records selected for tomorrow's profile, and those of hour h
TomorrowDow == (weekday(response.now[1]) + 1) % 7
Matching == {k \in 1..Len(Cache) : Cache[k].dayofweek = TomorrowDow}
Selected == IF Matching = {} THEN 1..Len(Cache) ELSE Matching
SelectedHour(h) == {k \in Selected : Cache[k].hour = h}

\* twice the median of the predicted values of the records I (I not empty):
\* the sum of the lower and the upper middle value
Below(I, v) == Cardinality({k \in I : Pred(k) < v})
AtMost(I, v) == Cardinality({k \in I : Pred(k) <= v})
Middle(I, r) ==
  CHOOSE v \in {Pred(k) : k \in I} : Below(I, v) < r /\ r <= AtMost(I, v)
TwiceMedian(I) ==
  Middle(I, (Cardinality(I) + 1) \div 2) + Middle(I, Cardinality(I) \div 2 + 1)

\* C8: forecastTomorrow has exactly 24 entries; the selected set is the cached
\* records of tomorrow's day of week, or the whole table when none matches;
\* per hour the predicted value is the (rounded) median predicted_kw of the
\* selected records of that hour, and the number 0, never null, when there
\* is none.
C8_NextDayProfile ==
  response.kind = "forecast" =>
    /\ Len(response.forecastTomorrow) = 24
    /\ \A h \in 0..23 :
         LET e == response.forecastTomorrow[h + 1]
             S == SelectedHour(h)
         IN  /\ e.hour = h
             /\ S = {} => e.predicted = JsonNum(0)
             /\ S # {} => IsRounded(e.predicted, TwiceMedian(S), 2 * Resolution)

C8_Witness ==
  /\ response.kind = "forecast"
  /\ Matching # {}
  /\ Matching # 1..Len(Cache)
  /\ \E h \in 0..23 : SelectedHour(h) = {}
  /\ \E h \in 0..23 : Cardinality(SelectedHour(h)) >= 2
                      /\ response.forecastTomorrow[h + 1].predicted.val > 0

\* the fallback to the whole table is taken
C8_WitnessFallback ==
  /\ response.kind = "forecast"
  /\ Matching = {}
  /\ Len(Cache) > 10

DowRecords(d) == {k \in 1..Len(Cache) : Cache[k].dayofweek = weekday(d)}

\* C9: weeklyForecast has exactly 7 entries for the calendar days current
\* date + 1 .. current date + 7 in order; peakPredicted and avgPredicted are
\* the max and mean predicted_kw of the cached records of that day's day of
\* week, both 0 when there is none, and isWeekend holds exactly when the
\* day of week is 5 or 6.
C9_WeeklyForecast ==
  response.kind = "forecast" =>
    /\ Len(response.weeklyForecast) = 7
    /\ \E today \in Range(response.now) :
         \A i \in 1..7 : response.weeklyForecast[i].date = today + i
    /\ \A i \in 1..7 :
         LET e == response.weeklyForecast[i]
             D == DowRecords(e.date)
         IN  /\ e.isWeekend = (weekday(e.date) \in {5, 6})
             /\ D = {} => e.peakPredicted = JsonNum(0) /\ e.avgPredicted = JsonNum(0)
             /\ D # {} =>
                  /\ IsRounded(e.peakPredicted, MaxOf({Pred(k) : k \in D}),
                               Resolution)
                  /\ IsRounded(e.avgPredicted, SumPred(D),
                               Cardinality(D) * Resolution)

\* the row of the cached table that the p-th top10 entry shows (0: none)
RowAt(p) ==
  IF \E k \in 1..Len(Cache) : Cache[k].Timestamp = response.top10[p].time
  THEN CHOOSE k \in 1..Len(Cache) : Cache[k].Timestamp = response.top10[p].time
  ELSE 0
Rows10 == Eager([p \in 1..Len(response.top10) |-> RowAt(p)])
\* row j comes before row k in the ranking: larger value, or equal and earlier
Before(j, k) == Pred(j) > Pred(k) \/ (Pred(j) = Pred(k) /\ j < k)

\* T shows the rows at, in this order
Top10Of(T, at) ==
  /\ Len(T) = IF Len(Cache) < 10 THEN Len(Cache) ELSE 10
  /\ \A p \in 1..Len(T) :
       /\ at[p] # 0
       /\ IsRounded(T[p].predictedKW, Pred(at[p]), Resolution)
  /\ \A p, q \in 1..Len(T) : p < q => Before(at[p], at[q])
  /\ \A j \in 1..Len(Cache) :
       (\A p \in 1..Len(T) : at[p] # j) =>
          \A p \in 1..Len(T) : Before(at[p], j)

\* C10: top10 holds min(10, number of cached records) records with the
\* largest predicted values, ordered by predictedKW descending, records of
\* equal predicted value in their original row order, inside the list and in
\* deciding which of them makes the cut.
C10_Top10 == response.kind = "peak" => Top10Of(response.top10, Rows10)

Top10Ties(at) ==
  /\ \E j \in 1..Len(Cache) : Pred(j) = Pred(at[10]) /\ j > at[10]
  /\ \E p \in 1..9 : Pred(at[p]) = Pred(at[p + 1])
  /\ \E p \in 1..9 : Pred(at[p]) > Pred(at[p + 1])

C10_Witness ==
  /\ response.kind = "peak"
  /\ Len(Cache) > 10
  /\ Len(response.top10) = 10
  /\ Top10Ties(Rows10)

\* C11: when a step inside a /forecast or /peak request raises an error, the
\* request returns the structured error result (the message, status 500) and
\* the process keeps serving; the failed request leaves the cached table and
\* the metrics as they were, and the request after a failed one is served
\* from that same cache.
C11_ErrorsAreCaught ==
  /\ [](raised # NoException =>
          /\ pc = "serving"
          /\ response.kind = "error"
          /\ response.status = 500
          /\ response.error = raised)
  /\ [][(raised' # NoException \/ raised # NoException) =>
          /\ pc' = "serving"
          /\ heap.df_test' = heap.df_test
          /\ metrics' = metrics
          /\ predictCalls' = predictCalls
          /\ raised' = NoException =>
                response'.kind \in {"health", "forecast", "peak"}]_vars

C11_Witness ==
  /\ pc = "serving"
  /\ raised \in Exceptions
  /\ response.kind = "error"
  /\ Len(heap.df_test) > 10

\* C12: one /forecast response is computed from one current date: the day of
\* week that selects the records of forecastTomorrow is the day of week of
\* the first weeklyForecast entry, and the 7 weeklyForecast dates are 7
\* consecutive calendar days, also when midnight passes during the request.
C12_OneCurrentDate ==
  response.kind = "forecast" =>
    /\ TomorrowDow = weekday(response.weeklyForecast[1].date)
    /\ \A i \in 1..6 :
         response.weeklyForecast[i + 1].date =
           response.weeklyForecast[i].date + 1

====
